---- MODULE Spec2Model ----
(***************************************************************************)
(* Milk DIP Converter & Table Generator (src/streamlit_app.py).            *)
(*                                                                         *)
(* State: the session's record list and the outcome of the last call of    *)
(* generate_dip_table_from_records.                                        *)
(*                                                                         *)
(* Numbers.  The program computes on Python floats; the model computes on  *)
(* exact rationals and fixed-point integers:                               *)
(*   - a text input is a number of thousandths (or not a number at all);   *)
(*   - a stored level ('DIP') is an integer number of hundredths of a      *)
(*     level, a stored quantity ('Milk (KG)', a value of value_map, a      *)
(*     table cell) an integer number of hundredths of a unit: both are     *)
(*     what round(x, 2) leaves;                                            *)
(*   - the row level `dip` is an integer number of whole levels, as in     *)
(*     the code; DipH(dip) is the same level in hundredths;                *)
(*   - a step is a rational <<num, den>>, den > 0.  A division by zero     *)
(*     yields den = 0, which every later operation keeps: it marks the     *)
(*     exception the code would raise.                                     *)
(* round(x, 2) is rounding to the nearest hundredth.  A value exactly      *)
(* halfway between two hundredths goes to the even one here; the program   *)
(* sends it to either, as the float nearest to it lies below or above.     *)
(* Nothing below that is stated to hold rests on the direction of a tie.   *)
(***************************************************************************)
EXTENDS Integers, Sequences, FiniteSets

VARIABLES records, result

vars == <<records, result>>

\* ------------------------------------------------------------------------
\* Bounds of the model and the inputs it enumerates
\* ------------------------------------------------------------------------

\* The longest record list explored.
MaxRecords == 3

\* Text typed into "DIP": -1.5, 0.504, 3.2, and a text float() rejects.
DipInputs == { <<"num", -1500>>, <<"num", 504>>, <<"num", 3200>>, <<"bad", 0>> }

\* Text typed into "Milk (KG)": -3 and 10.004.
MilkInputs == { <<"num", -3000>>, <<"num", 10004>> }

\* An optional argument: None, or Some(v).
None == <<>>

Some(v) == <<v>>

\* dip_start and dip_end as passed to generate_dip_table_from_records
\* (whole levels); the application itself always passes None.
DipStartArgs == { None, Some(-1) }

DipEndArgs == { None, Some(4) }

Modes == { "kg", "litre" }

\* ------------------------------------------------------------------------
\* Arithmetic
\* ------------------------------------------------------------------------

Min(S) == CHOOSE x \in S : \A y \in S : x <= y

Max(S) == CHOOSE x \in S : \A y \in S : x >= y

Abs(x) == IF x < 0 THEN -x ELSE x

RECURSIVE GCD(_, _)
GCD(a, b) == IF b = 0 THEN a ELSE GCD(b, a % b)

\* The rational n/d in lowest terms, d > 0; d = 0 stands for a
\* ZeroDivisionError.
Rat(n, d) ==
    IF d = 0 THEN <<0, 0>>
    ELSE LET g == GCD(Abs(n), Abs(d))
         IN  IF d < 0 THEN <<(-n) \div g, (-d) \div g>>
             ELSE <<n \div g, d \div g>>

RInt(k) == <<k, 1>>

RAdd(a, b) == Rat(a[1] * b[2] + b[1] * a[2], a[2] * b[2])

RSub(a, b) == Rat(a[1] * b[2] - b[1] * a[2], a[2] * b[2])

RMul(a, b) == Rat(a[1] * b[1], a[2] * b[2])

Faulted(a) == a[2] = 0

\* Python's int(x) of the rational n/d, d > 0: truncation toward zero.
IntTrunc(n, d) == IF n >= 0 THEN n \div d ELSE -((-n) \div d)

\* round(x) to the nearest integer, ties to even (x = r[1]/r[2], r[2] > 0).
RoundHalfEven(r) ==
    LET q == r[1] \div r[2]
        m == r[1] % r[2]
    IN  IF 2 * m < r[2] THEN q
        ELSE IF 2 * m > r[2] THEN q + 1
        ELSE IF q % 2 = 0 THEN q ELSE q + 1

\* round(x, 2) of a quantity given in hundredths: the nearest hundredth.
\* (Of a faulted value: 0, the call having raised; see "raised" below.)
Round2(r) == IF Faulted(r) THEN 0 ELSE RoundHalfEven(r)

\* ------------------------------------------------------------------------
\* The manual entry form
\* ------------------------------------------------------------------------

\* float(text), 0.0 on ValueError; in thousandths.
ParseFloat(s) == IF s[1] = "num" THEN s[2] ELSE 0

\* The record appended by "Add Record".
NewRecord(milk_kg_str, dip_str) ==
    LET milk_kg == ParseFloat(milk_kg_str)
        dip     == ParseFloat(dip_str)
    IN  [ Milk  |-> Round2(Rat(milk_kg, 10)),
          DIP   |-> Round2(Rat(dip, 10)),
          DIPMM |-> Round2(Rat(dip * 10, 10)) ]

\* ------------------------------------------------------------------------
\* DIP table logic
\* ------------------------------------------------------------------------

\* One whole level, in the unit of the stored levels (hundredths).
DipH(dip) == dip * 100

\* milk_diff / (dip_diff * 10): the change of quantity per 0.1 level.
\* dip1 = dip2 divides by zero.
find_consistent_step(dip1, dip2, milk1, milk2) ==
    LET milk_diff == milk2 - milk1
        dip_diff  == dip2 - dip1
    IN  Rat(milk_diff * 10, dip_diff)

Headers == <<"DIP", "0", "1", "2", "3", "4", "5", "6", "7", "8", "9">>

ref_dips(recs) == [i \in 1..Len(recs) |-> recs[i].DIP]

ref_kgs(recs) == [i \in 1..Len(recs) |-> recs[i].Milk]

\* kg / 1.0285 rounded to 2 decimals.
ToLitre(kg) == Round2(Rat(kg * 10000, 10285))

\* The quantity stored for a record's mass in the selected mode.
ModeValue(kg, mode) == IF mode = "kg" THEN kg ELSE ToLitre(kg)

\* First-write-wins: the quantity of the first record of a level is kept.
KeptIndexFirst(recs, d) == Min({i \in 1..Len(recs) : recs[i].DIP = d})

\* The index of the record whose quantity a dict comprehension over
\* zip(ref_dips, ref_kgs) keeps for key d: the last one.
KeptIndex(recs, d) == Max({i \in 1..Len(recs) : recs[i].DIP = d})

\* value_map = {d: kg ...} (or the converted quantity).
value_map(recs, mode) ==
    [d \in {ref_dips(recs)[i] : i \in 1..Len(recs)} |->
        ModeValue(ref_kgs(recs)[KeptIndex(recs, d)], mode)]

RECURSIVE Sorted(_)
\* sorted(S) as a sequence.
Sorted(S) ==
    IF S = {} THEN <<>>
    ELSE LET m == Min(S) IN <<m>> \o Sorted(S \ {m})

\* sorted_dips = sorted(value_map.keys())
sorted_dips(vm) == Sorted(DOMAIN vm)

\* seq.index(x), 0-based.
IndexOf(seq, x) == (CHOOSE i \in 1..Len(seq) : seq[i] = x) - 1

\* Whether seq[k] (0-based, negative k counting from the end) exists.
InRange(seq, k) == k >= -Len(seq) /\ k < Len(seq)

\* seq[k] in Python.
PyAt(seq, k) == IF k >= 0 THEN seq[k + 1] ELSE seq[Len(seq) + k + 1]

\* The gap test of the special-case pass: next_dip - current_dip > 1.5
IsGap(current_dip, next_dip) == next_dip - current_dip > 150

RECURSIVE SpecialCasesUpTo(_, _, _)
\* special_cases after the first n iterations of the pass over the
\* consecutive pairs of sorted_dips: whole level -> step per 0.1 level.
SpecialCasesUpTo(n, sd, vm) ==
    IF n = 0 THEN << >>
    ELSE
      LET prev            == SpecialCasesUpTo(n - 1, sd, vm)
          current_dip     == sd[n]
          next_dip        == sd[n + 1]
          current_val     == vm[current_dip]
          next_val        == vm[next_dip]
          curr_whole_dip  == IntTrunc(current_dip, 100)
          next_whole_dip  == IntTrunc(next_dip, 100)
          step            == find_consistent_step(current_dip, next_dip,
                                                  current_val, next_val)
          new             == (curr_whole_dip + 1)..next_whole_dip
      IN  IF IsGap(current_dip, next_dip) /\ curr_whole_dip # next_whole_dip
          THEN [d \in (DOMAIN prev) \cup new |->
                   IF d \in new THEN step ELSE prev[d]]
          ELSE prev

special_cases(sd, vm) == SpecialCasesUpTo(Len(sd) - 1, sd, vm)

\* The comparison slackened to d >= dip: a reference point becomes its own
\* next point.
HigherDipsOrEqual(sd, dip) == {sd[k] : k \in {j \in 1..Len(sd) : sd[j] >= dip}}

\* [d for d in sorted_dips if d > dip]
HigherDips(sd, dip) == {sd[k] : k \in {j \in 1..Len(sd) : sd[j] > dip}}

\* [d for d in sorted_dips if d < dip]
StrictlyLowerDips(sd, dip) == {sd[k] : k \in {j \in 1..Len(sd) : sd[j] < dip}}

\* [d for d in sorted_dips if d <= dip]
LowerDips(sd, dip) == {sd[k] : k \in {j \in 1..Len(sd) : sd[j] <= dip}}

\* [d for d in sorted_dips if dip < d < dip + 1]
RefsInRange(sd, dip) ==
    {sd[k] : k \in {j \in 1..Len(sd) : dip < sd[j] /\ sd[j] < dip + 100}}

\* The default step of a row no interval determines: 2.5 per whole level.
DefaultStep == Rat(250, 1)

\* A row before rounding and truncation: its ten values val[0..9], the step
\* per whole level it starts with (rate), and whether a call it makes
\* raises (fault).

\* `dip` is an exact reference point (dip in value_map).
ExactRow(dip, vm, sd) ==
    LET base_value  == vm[DipH(dip)]
        higher_dips == HigherDips(sd, DipH(dip))
        lower_dips  == StrictlyLowerDips(sd, DipH(dip))
        step_size   ==
            IF higher_dips # {}
            THEN LET next_dip == Min(higher_dips)
                     next_val == vm[next_dip]
                 IN  RMul(find_consistent_step(DipH(dip), next_dip,
                                               base_value, next_val), RInt(10))
            ELSE IF lower_dips # {}
            THEN LET prev_dip == Max(lower_dips)
                     prev_val == vm[prev_dip]
                 IN  RMul(find_consistent_step(prev_dip, DipH(dip),
                                               prev_val, base_value), RInt(10))
            ELSE DefaultStep
        decimal_step == RMul(step_size, Rat(1, 10))
    IN  [ branch |-> "exact",
          fault  |-> Faulted(step_size),
          rate   |-> step_size,
          val    |-> [i \in 0..9 |->
                        RAdd(RInt(base_value), RMul(RInt(i), decimal_step))] ]

\* `dip` is in special_cases and a reference point lies inside the row.
SplitRow(dip, vm, sd, step_size) ==
    LET lower_dips    == LowerDips(sd, DipH(dip))
        refs_in_range == RefsInRange(sd, DipH(dip))
        ref_dip       == Min(refs_in_range)
        ref_val       == vm[ref_dip]
        ref_decimal   == IntTrunc(ref_dip - DipH(dip), 10)
        step_before   ==
            IF lower_dips # {}
            THEN LET lower_dip == Max(lower_dips)
                 IN  find_consistent_step(lower_dip, ref_dip,
                                          vm[lower_dip], ref_val)
            ELSE step_size
        base_before   ==
            IF lower_dips # {}
            THEN LET lower_dip == Max(lower_dips)
                 IN  RAdd(RInt(vm[lower_dip]),
                          RMul(Rat(DipH(dip) - lower_dip, 10), step_before))
            ELSE RSub(RInt(ref_val),
                      RMul(Rat(ref_dip - DipH(dip), 10), step_before))
        higher_dips_after_ref == HigherDips(sd, ref_dip)
        step_after    ==
            IF higher_dips_after_ref # {}
            THEN LET higher_dip == Min(higher_dips_after_ref)
                 IN  find_consistent_step(ref_dip, higher_dip,
                                          ref_val, vm[higher_dip])
            ELSE step_before
    IN  [ branch |-> "split",
          fault  |-> Faulted(step_before) \/ Faulted(step_after),
          rate   |-> RMul(step_before, RInt(10)),
          val    |-> [i \in 0..9 |->
                        IF i < ref_decimal
                        THEN RAdd(base_before, RMul(RInt(i), step_before))
                        ELSE RAdd(RInt(ref_val),
                                  RMul(Rat(DipH(dip) + 10 * i - ref_dip, 10),
                                       step_after))] ]

\* `dip` is in special_cases and no reference point lies inside the row.
GapRow(dip, vm, sd, step_size) ==
    LET lower_dips  == LowerDips(sd, DipH(dip))
        higher_dips == HigherDips(sd, DipH(dip))
        base_value  ==
            IF lower_dips # {}
            THEN LET lower_dip == Max(lower_dips)
                 IN  RAdd(RInt(vm[lower_dip]),
                          RMul(Rat(DipH(dip) - lower_dip, 10), step_size))
            ELSE IF higher_dips # {}
            THEN LET higher_dip == Min(higher_dips)
                 IN  RSub(RInt(vm[higher_dip]),
                          RMul(Rat(higher_dip - DipH(dip), 10), step_size))
            ELSE RInt(0)
    IN  [ branch |-> "gap",
          fault  |-> Faulted(step_size),
          rate   |-> RMul(step_size, RInt(10)),
          val    |-> [i \in 0..9 |->
                        RAdd(base_value, RMul(RInt(i), step_size))] ]

\* `dip` is in special_cases.
SpecialRow(dip, vm, sd, sc) ==
    IF RefsInRange(sd, DipH(dip)) # {}
    THEN SplitRow(dip, vm, sd, sc[dip])
    ELSE GapRow(dip, vm, sd, sc[dip])

\* base_value and step_size of a row that is neither a reference point nor
\* a special case: <<base_value, step_size, raised>>.
PlainBase(dip, vm, sd) ==
    LET lower_dips  == LowerDips(sd, DipH(dip))
        higher_dips == HigherDips(sd, DipH(dip))
    IN  IF lower_dips # {} /\ higher_dips # {}
        THEN LET lower_dip  == Max(lower_dips)
                 higher_dip == Min(higher_dips)
                 step_size  == RMul(find_consistent_step(lower_dip, higher_dip,
                                        vm[lower_dip], vm[higher_dip]), RInt(10))
             IN  << RAdd(RInt(vm[lower_dip]),
                         RMul(Rat(DipH(dip) - lower_dip, 100), step_size)),
                    step_size, FALSE >>
        ELSE IF lower_dips # {}
        THEN IF Cardinality(lower_dips) >= 2
             THEN LET last_dip        == Max(lower_dips)
                      second_last_idx == IndexOf(sd, last_dip) - 1
                  IN  IF ~InRange(sd, second_last_idx)
                      THEN << RInt(0), RInt(0), TRUE >>
                      ELSE
                        LET second_last_dip == PyAt(sd, second_last_idx)
                            step_size == RMul(find_consistent_step(
                                             second_last_dip, last_dip,
                                             vm[second_last_dip], vm[last_dip]),
                                           RInt(10))
                        IN  << RAdd(RInt(vm[last_dip]),
                                    RMul(Rat(DipH(dip) - last_dip, 100), step_size)),
                               step_size, FALSE >>
             ELSE << RInt(vm[Max(lower_dips)]), DefaultStep, FALSE >>
        ELSE IF higher_dips # {}
        THEN LET first_dip == Min(higher_dips)
             IN  IF Cardinality(higher_dips) >= 2
                 THEN LET second_idx == IndexOf(sd, first_dip) + 1
                      IN  IF ~InRange(sd, second_idx)
                          THEN << RInt(0), RInt(0), TRUE >>
                          ELSE
                            LET second_dip == PyAt(sd, second_idx)
                                step_size  == RMul(find_consistent_step(
                                                  first_dip, second_dip,
                                                  vm[first_dip], vm[second_dip]),
                                                RInt(10))
                            IN  << RSub(RInt(vm[first_dip]),
                                        RMul(Rat(first_dip - DipH(dip), 100), step_size)),
                                   step_size, FALSE >>
                 ELSE << RInt(vm[Min(higher_dips)]), DefaultStep, FALSE >>
        ELSE << RInt(0), DefaultStep, FALSE >>

\* `dip` is neither a reference point nor a special case.
PlainRow(dip, vm, sd) ==
    LET b            == PlainBase(dip, vm, sd)
        base_value   == b[1]
        step_size    == b[2]
        decimal_step == RMul(step_size, Rat(1, 10))
    IN  [ branch |-> "plain",
          fault  |-> b[3] \/ Faulted(step_size),
          rate   |-> step_size,
          val    |-> [i \in 0..9 |->
                        RAdd(base_value, RMul(RInt(i), decimal_step))] ]

\* The branch taken for row `dip`.
RowValues(dip, vm, sd, sc) ==
    IF DipH(dip) \in DOMAIN vm THEN ExactRow(dip, vm, sd)
    ELSE IF dip \in DOMAIN sc THEN SpecialRow(dip, vm, sd, sc)
    ELSE PlainRow(dip, vm, sd)

\* The break taken at dip + i/10 >= max_actual_dip: the maximum level itself
\* loses its cell.
AppendedBelowMax(dip, i, max_actual_dip) ==
    \A j \in 0..i : ~(DipH(dip) + 10 * j >= max_actual_dip)

\* Whether the loop over i appends the value of tenth i: no tenth up to i
\* hits `if dip + i/10 > max_actual_dip: break`.
Appended(dip, i, max_actual_dip) ==
    \A j \in 0..i : ~(DipH(dip) + 10 * j > max_actual_dip)

\* The number of values the loop over i appends to the row.
RowLen(dip, max_actual_dip) ==
    Cardinality({i \in 0..9 : Appended(dip, i, max_actual_dip)})

\* row = [dip, val, val, ...]
Row(dip, rv, max_actual_dip) ==
    <<dip>> \o [k \in 1..RowLen(dip, max_actual_dip) |-> Round2(rv.val[k - 1])]

\* Whether the while loop runs its body for `dip`.
LoopRuns(dip, dip_end, max_actual_dip) ==
    DipH(dip) <= dip_end /\ ~(DipH(dip) > max_actual_dip)

RECURSIVE RowDips(_, _, _)
\* The values `dip` takes in the while loop, in order.
RowDips(dip, dip_end, max_actual_dip) ==
    IF LoopRuns(dip, dip_end, max_actual_dip)
    THEN <<dip>> \o RowDips(dip + 1, dip_end, max_actual_dip)
    ELSE <<>>

\* The emptiness test left out: min() of an empty list raises ValueError.
EmptyTableRaises ==
    [ raised |-> TRUE, headers |-> <<>>, rows |-> <<>>,
      value_map |-> <<>>, rates |-> <<>> ]

\* The table returned when there are no records.
EmptyTable ==
    [ raised |-> FALSE, headers |-> Headers, rows |-> <<>>,
      value_map |-> <<>>, rates |-> <<>> ]

\* generate_dip_table_from_records(records, dip_start, dip_end, mode):
\* headers and output_data, or raised = TRUE when the call raises; with
\* them the value_map the call built and the step per whole level of each
\* row.
generate_dip_table_from_records(recs, dip_start, dip_end, mode) ==
    IF Len(ref_dips(recs)) = 0 \/ Len(ref_kgs(recs)) = 0 THEN EmptyTable
    ELSE
      LET dips   == {ref_dips(recs)[i] : i \in 1..Len(recs)}
          start  == IF dip_start = None THEN IntTrunc(Min(dips), 100)
                    ELSE dip_start[1]
          end    == IF dip_end = None THEN Max(dips) ELSE DipH(dip_end[1])
          max_actual_dip == Max(dips)
          vm     == value_map(recs, mode)
          sd     == sorted_dips(vm)
          sc     == special_cases(sd, vm)
          loop   == RowDips(start, end, max_actual_dip)
          rv     == [k \in 1..Len(loop) |-> RowValues(loop[k], vm, sd, sc)]
          fault  == \/ \E d \in DOMAIN sc : Faulted(sc[d])
                    \/ \E k \in 1..Len(loop) : rv[k].fault
      IN  IF fault
          THEN [ raised |-> TRUE, headers |-> <<>>, rows |-> <<>>,
                 value_map |-> vm, rates |-> <<>> ]
          ELSE [ raised |-> FALSE, headers |-> Headers,
                 rows |-> [k \in 1..Len(loop) |->
                             Row(loop[k], rv[k], max_actual_dip)],
                 value_map |-> vm,
                 rates |-> [k \in 1..Len(loop) |-> rv[k].rate] ]

\* ------------------------------------------------------------------------
\* The state machine
\* ------------------------------------------------------------------------

\* No call made since the record list last changed.
NoCall == [ called |-> FALSE, args |-> <<>>, out |-> EmptyTable ]

Init ==
    /\ records = <<>>
    /\ result = NoCall

\* "Add Record" submitted with the two texts.
AddRecord(milk_kg_str, dip_str) ==
    /\ Len(records) < MaxRecords
    /\ records' = Append(records, NewRecord(milk_kg_str, dip_str))
    /\ result' = NoCall

\* "Clear Records", offered while there are records.
ClearRecords ==
    /\ records # <<>>
    /\ records' = <<>>
    /\ result' = NoCall

\* One call of generate_dip_table_from_records on the session's records.
\* The function reads nothing but its arguments, so a call is explored once
\* per record list and argument choice: from the state the list's last
\* change left.
Generate(dip_start, dip_end, mode) ==
    /\ ~result.called
    /\ result' = [ called |-> TRUE,
                   args   |-> [dip_start |-> dip_start, dip_end |-> dip_end,
                               mode |-> mode],
                   out    |-> generate_dip_table_from_records(
                                  records, dip_start, dip_end, mode) ]
    /\ UNCHANGED records

Next ==
    \/ \E m \in MilkInputs, d \in DipInputs : AddRecord(m, d)
    \/ ClearRecords
    \/ \E s \in DipStartArgs, e \in DipEndArgs, mode \in Modes : Generate(s, e, mode)

Spec == Init /\ [][Next]_vars

\* ------------------------------------------------------------------------
\* What the properties below speak of
\* ------------------------------------------------------------------------

\* The calibrated levels of the session's records.
Levels == {records[i].DIP : i \in 1..Len(records)}

\* A call has returned a table.
Returned == result.called /\ ~result.out.raised

\* The call was made the way the application makes it.
DefaultRange == result.args.dip_start = None /\ result.args.dip_end = None

OnGrid == \A d \in Levels : d % 10 = 0

Rows == result.out.rows

\* The level, in hundredths, that tenth n of row k stands for.
CellLevel(k, n) == DipH(Rows[k][1]) + 10 * n

\* The tenths of row k that hold a value.
Tenths(k) == 0..(Len(Rows[k]) - 2)

\* The value of tenth n of row k.
Cell(k, n) == Rows[k][n + 2]

\* The first row level of the call, and the level its dip_end stands for.
FirstLevel ==
    IF result.args.dip_start = None THEN IntTrunc(Min(Levels), 100)
    ELSE result.args.dip_start[1]

EndLevel ==
    IF result.args.dip_end = None THEN Max(Levels)
    ELSE 100 * result.args.dip_end[1]

\* The index of the last record entered for level d.
LastIndex(d) ==
    CHOOSE i \in 1..Len(records) :
        /\ records[i].DIP = d
        /\ \A j \in (i + 1)..Len(records) : records[j].DIP # d

\* The records that are the last entered for their level, in list order.
RECURSIVE LastOnly(_)
LastOnly(n) ==
    IF n = 0 THEN <<>>
    ELSE IF LastIndex(records[n].DIP) = n
         THEN Append(LastOnly(n - 1), records[n])
         ELSE LastOnly(n - 1)

\* ------------------------------------------------------------------------
\* C1
\* ------------------------------------------------------------------------

\* Straight-line interpolation between (lo, vlo) and (hi, vhi) at level L,
\* rounded to 2 decimals.
Interpolated(L, lo, vlo, hi, vhi) ==
    Round2(RAdd(RInt(vlo), Rat((L - lo) * (vhi - vlo), hi - lo)))

\* C1: every cell whose level is not calibrated and has calibrated levels
\* below and above it holds the 2-decimal rounding of the straight line
\* through the nearest calibrated levels below and above it.
C1_InteriorInterpolation ==
    (Returned /\ OnGrid) =>
        \A k \in 1..Len(Rows) : \A n \in Tenths(k) :
            LET L     == CellLevel(k, n)
                below == {d \in Levels : d < L}
                above == {d \in Levels : d > L}
                vm    == result.out.value_map
            IN  (L \notin Levels /\ below # {} /\ above # {}) =>
                    Cell(k, n) = Interpolated(L, Max(below), vm[Max(below)],
                                              Min(above), vm[Min(above)])

\* ------------------------------------------------------------------------
\* C2
\* ------------------------------------------------------------------------

\* C2: for every calibrated level d on the 0.1 grid, the cell of row
\* int(d), tenth (d - row) * 10, holds exactly the quantity the calibration
\* map stores for d.
C2_Exactness ==
    (Returned /\ DefaultRange) =>
        \A d \in Levels :
            LET row == IntTrunc(d, 100)
                n   == (d - 100 * row) \div 10
            IN  (d % 10 = 0 /\ n \in 0..9) =>
                    \E k \in 1..Len(Rows) :
                        /\ Rows[k][1] = row
                        /\ n \in Tenths(k)
                        /\ Cell(k, n) = result.out.value_map[d]

\* ------------------------------------------------------------------------
\* C3
\* ------------------------------------------------------------------------

RECURSIVE RateSum(_, _, _)
\* The sum of the rates (quantity per whole level) of the first n
\* consecutive calibration intervals.
RateSum(n, sd, vm) ==
    IF n = 0 THEN RInt(0)
    ELSE RAdd(RateSum(n - 1, sd, vm),
              Rat((vm[sd[n + 1]] - vm[sd[n]]) * 100, sd[n + 1] - sd[n]))

\* The mean of the rates of all consecutive calibration intervals.
AverageRate(vm) ==
    LET sd == Sorted(DOMAIN vm)
    IN  RMul(RateSum(Len(sd) - 1, sd, vm), Rat(1, Len(sd) - 1))

\* a <= b, for rationals.
RLeq(a, b) == a[1] * b[2] <= b[1] * a[2]

\* r lies within [0.5 avg, 1.5 avg], mirrored when avg < 0.
WithinClamp(r, avg) ==
    LET half    == RMul(avg, Rat(1, 2))
        oneHalf == RMul(avg, Rat(3, 2))
    IN  IF RLeq(RInt(0), avg)
        THEN RLeq(half, r) /\ RLeq(r, oneHalf)
        ELSE RLeq(oneHalf, r) /\ RLeq(r, half)

\* C3: with at least 2 calibration points, a row that holds a cell below
\* the minimum calibrated level is projected with a rate per whole level
\* within [0.5 avg, 1.5 avg] (mirrored when avg < 0).
C3_SlopeClampBound ==
    (Returned /\ Cardinality(Levels) >= 2) =>
        \A k \in 1..Len(Rows) :
            (\E n \in Tenths(k) : CellLevel(k, n) < Min(Levels)) =>
                WithinClamp(result.out.rates[k],
                            AverageRate(result.out.value_map))

\* ------------------------------------------------------------------------
\* C4
\* ------------------------------------------------------------------------

\* C4: with dip_start and dip_end left at their defaults and records
\* present, the row levels are the consecutive integers from
\* floor(minimum level) to the largest integer not above the maximum level.
C4_DefaultRowLevels ==
    (Returned /\ DefaultRange /\ records # <<>>) =>
        LET first == Min(Levels) \div 100
            last  == Max(Levels) \div 100
        IN  /\ Len(Rows) = last - first + 1
            /\ \A k \in 1..Len(Rows) : Rows[k][1] = first + k - 1

\* ------------------------------------------------------------------------
\* C5
\* ------------------------------------------------------------------------

\* C5: in litre mode a negative mass is stored as 0, a non-negative mass as
\* mass / 1.0285 rounded to 2 decimals; no stored quantity is negative.
C5_VolumeClamp ==
    (result.called /\ result.args.mode = "litre") =>
        \A d \in DOMAIN result.out.value_map :
            LET kg == records[LastIndex(d)].Milk
                v  == result.out.value_map[d]
            IN  /\ v >= 0
                /\ kg < 0 => v = 0
                /\ kg >= 0 => v = Round2(Rat(kg * 10000, 10285))

\* ------------------------------------------------------------------------
\* C6
\* ------------------------------------------------------------------------

\* C6: the table built in litre mode has the rows and row lengths of the
\* table built in kg mode, and each of its cells is the kg cell converted,
\* round(kg / 1.0285, 2).
C6_RoundTripConversion ==
    Returned =>
        LET kg == generate_dip_table_from_records(
                      records, result.args.dip_start, result.args.dip_end, "kg").rows
            li == generate_dip_table_from_records(
                      records, result.args.dip_start, result.args.dip_end, "litre").rows
        IN  /\ Len(li) = Len(kg)
            /\ \A k \in 1..Len(kg) :
                  /\ Len(li[k]) = Len(kg[k])
                  /\ li[k][1] = kg[k][1]
                  /\ \A c \in 2..Len(kg[k]) :
                        li[k][c] = Round2(Rat(kg[k][c] * 10000, 10285))

\* ------------------------------------------------------------------------
\* C7
\* ------------------------------------------------------------------------

\* C7: the calibration map has one key per distinct level and holds for it
\* the quantity of the last record entered for that level (converted in
\* litre mode); the table is the table of the records that are the last
\* entered for their level.
C7_LastWriteWins ==
    result.called =>
        LET vm == result.out.value_map
        IN  /\ DOMAIN vm = Levels
            /\ \A d \in Levels :
                  vm[d] = IF result.args.mode = "kg"
                          THEN records[LastIndex(d)].Milk
                          ELSE Round2(Rat(records[LastIndex(d)].Milk * 10000, 10285))
            /\ result.out.rows =
                  generate_dip_table_from_records(
                      LastOnly(Len(records)), result.args.dip_start,
                      result.args.dip_end, result.args.mode).rows

\* A table was built from records of which two share a level and differ in
\* quantity, the level being a row of the table.
C7_Witness ==
    /\ Returned
    /\ \E i, j \in 1..Len(records) :
          /\ i < j
          /\ records[i].DIP = records[j].DIP
          /\ records[i].Milk # records[j].Milk
          /\ \E k \in 1..Len(Rows) : 100 * Rows[k][1] = records[i].DIP

\* ------------------------------------------------------------------------
\* C8
\* ------------------------------------------------------------------------

\* C8: a call with no records returns the 11 fixed headers and zero rows
\* and does not raise, whatever dip_start, dip_end and mode; a call with
\* records returns the same 11 headers.
C8_EmptyInput ==
    result.called =>
        /\ ~result.out.raised
        /\ result.out.headers =
              <<"DIP", "0", "1", "2", "3", "4", "5", "6", "7", "8", "9">>
        /\ records = <<>> => result.out.rows = <<>>

\* A call with no records and explicit dip_start and dip_end has returned.
C8_Witness ==
    /\ result.called
    /\ records = <<>>
    /\ result.args.dip_start # None
    /\ result.args.dip_end # None

\* ------------------------------------------------------------------------
\* C9
\* ------------------------------------------------------------------------

\* In row k, tenth n holds a value if and only if its level does not exceed
\* the maximum calibrated level.
TruncatedAtMaximum(k) ==
    \A n \in 0..9 : (n \in Tenths(k)) <=> (CellLevel(k, n) <= Max(Levels))

\* The rows are those of the consecutive integer levels from FirstLevel up
\* to the largest one not above `last` (hundredths).
RowsCover(last) ==
    LET n == IF last \div 100 >= FirstLevel
             THEN last \div 100 - FirstLevel + 1 ELSE 0
    IN  /\ Len(Rows) = n
        /\ \A k \in 1..Len(Rows) : Rows[k][1] = FirstLevel + k - 1

C10_NoArithmeticFault ==
    result.called => ~result.out.raised

\* A call has returned a table for records with a duplicate level and two
\* distinct levels less than one whole level apart, rows below the minimum
\* level included.
C10_Witness ==
    /\ Returned
    /\ Len(records) > Cardinality(Levels)
    /\ \E d, e \in Levels : d < e /\ e - d < 100
    /\ \E k \in 1..Len(Rows) : 100 * Rows[k][1] < Min(Levels)

====
